---- MODULE Spec2Model ----
(***************************************************************************)
(* Water ring toss (src/src/App.tsx): the orchestration layer of the App   *)
(* component.  The state is the component's React state and refs, the      *)
(* timers and listeners it registers, the bodies of the physics world and  *)
(* the jet force each body received on the latest force tick.              *)
(*                                                                         *)
(* Units.  Math.random() is a per-mille integer r (0 <= r < 1000).         *)
(* Forces are integers in units of 1e-5 / 180, so that                     *)
(*   (forceX + turbulenceX) * forceStrength = (2000 + 1.5*(r-500))*(180-d) *)
(*   -0.18 * forceStrength                  = -18000 * (180-d).            *)
(* Bubble x, y and size are in 1/1000 px, bubble opacity in 1/10000.       *)
(***************************************************************************)
EXTENDS Integers, Sequences, FiniteSets, TLC

VARIABLES
  phase,              \* "rendered" (no effect run yet), "mounted", "unmounted", "again"
  containerRef,       \* containerRef.current is non-null
  canvasRef,          \* canvasRef.current is non-null
  engineRef,          \* engineRef.current is non-null
  renderRef,          \* "null", "running", "stopped"
  runnerRef,          \* "null", "running", "stopped"
  world,              \* the bodies in engine.world
  pos,                \* body -> <<x, y>>
  applied,            \* body -> side -> force applied by that jet on the latest force tick
  leftButtonPressed,
  rightButtonPressed,
  forceInterval,      \* NoTimer, or the flags the registered interval callback closed over
  bubbleInterval,     \* the bubble advance interval is registered
  listeners,          \* the window listeners registered
  cleanups,           \* the effect cleanups React holds
  bubbles,            \* the live bubble list
  bubbleIdRef,
  error,              \* an exception was raised
  input,              \* history: side -> the latest input event's kind, and the held source
  forceTimer,         \* ms until the force interval fires (timed specification)
  waited              \* history: time the left jet has been on without a force tick

sceneVars == <<phase, containerRef, canvasRef, engineRef, renderRef, runnerRef, world>>
timeVars  == <<forceTimer, waited>>
vars == <<phase, containerRef, canvasRef, engineRef, renderRef, runnerRef, world, pos,
          applied, leftButtonPressed, rightButtonPressed, forceInterval, bubbleInterval,
          listeners, cleanups, bubbles, bubbleIdRef, error, input, forceTimer,
          waited>>

----------------------------------------------------------------------------
(* Program constants *)

width           == 600
height          == 400
wallThickness   == 20
pegHeight       == 60
ringRadius      == 28
jetRadius       == 180
verticalBand    == 200
push            == 2000      \* forceX magnitude 0.02, in 1e-5
turbulenceRange == 1500      \* 0.015, in 1e-5
lift            == 18000     \* 0.18, in 1e-5
bubbleCount     == 3
fadeStep        == 200       \* 0.02 of opacity, in 1/10000
riseBase        == 2000      \* 2 px, in 1/1000 px
topLimit        == -20000    \* y > -20, in 1/1000 px
xSpread         == 40        \* bubble x within 40 px around the jet
ySpread         == 20        \* bubble y up to 20 px above height - 50
sizeBase        == 4
sizeSpread      == 6
opacityBase     == 6000      \* 0.6, in 1/10000
opacitySpread   == 4         \* 0.4 per unit of Math.random(), in 1/10000 per mille
ForcePeriod     == 50        \* ms

(* Bounds of the model *)
MaxBubbles  == 6             \* a force tick is not taken when the list would exceed this
MaxLive     == 4             \* the same, in the specification of the bubble list
MaxBubbleId == 6             \* cap on bubbleIdRef
MaxWait     == 70            \* cap on the history counter waited, ms
Quantum     == 10            \* the timed specification advances time by at most this, ms

Sides   == {"left", "right"}
NoTimer == [registered |-> FALSE]
Zero    == <<0, 0>>
Abs(n)  == IF n < 0 THEN -n ELSE n
Max(a, b) == IF a >= b THEN a ELSE b

----------------------------------------------------------------------------
(* The scene: one static body and two ring segments stand for the world *)

Static  == {"peg1"}
Dynamic == {"segA", "segB"}
Bodies  == Static \cup Dynamic
isStatic(b) == b \in Static

\* the centre of ring i (line 153) and of peg1 (line 92)
ringX(i) == (width * (25 + i * 25)) \div 100
ringY(i) == 60 + i * 35

\* peg1; segment 6 of ring 1 (angle pi/2); segment 0 of ring 2 (angle 0)
InitialPos ==
  [b \in Bodies |->
     CASE b = "peg1" -> <<(width * 35) \div 100, height - wallThickness - pegHeight \div 2>>
       [] b = "segA" -> <<ringX(1), ringY(1) + ringRadius>>
       [] b = "segB" -> <<ringX(2) + ringRadius, ringY(2)>>]

NoForce == [b \in Bodies |-> [s \in Sides |-> Zero]]

----------------------------------------------------------------------------
(* applyWaterJet: the force on one body *)

xPosition(side) == IF side = "left" THEN (width * 25) \div 100 ELSE (width * 75) \div 100
\* faulty variant: both jets push to the right
forceXSame(side) == push

forceX(side)    == IF side = "left" THEN push ELSE -push

distance(p, side)   == Abs(p[1] - xPosition(side))
verticalDistance(p) == Abs(p[2] - (height - 100))

\* faulty variant: the vertical band is not checked
InZoneAnyHeight(p, side) == distance(p, side) < jetRadius

\* the condition of the if at line 209
InZone(p, side) == distance(p, side) < jetRadius /\ verticalDistance(p) < verticalBand

\* (Math.random() - 0.5) * 0.015, r per mille
turbulenceX(r) == ((r - 500) * turbulenceRange) \div 1000

\* faulty variant: the strength does not fall with the distance
forceStrengthFlat(d) == jetRadius

\* Math.max(0, 1 - distance / 180), times 180
forceStrength(d) == Max(0, jetRadius - d)

\* the force applied to a non-static body at p, drawing r (lines 205-217)
JetForce(p, side, r) ==
  IF InZone(p, side)
    THEN << (forceX(side) + turbulenceX(r)) * forceStrength(distance(p, side)),
            -lift * forceStrength(distance(p, side)) >>
    ELSE Zero

\* the bodies the forEach of line 202 does not skip
Pushable(b) == b \in world /\ ~isStatic(b)

\* faulty variant: the early return of line 196 is missing
JetForcesAlways(side, isPressed, turb) ==
  [b \in Bodies |-> IF Pushable(b) THEN JetForce(pos[b], side, turb[b]) ELSE Zero]

\* the forces one call applyWaterJet(side, isPressed) applies to the world
JetForces(side, isPressed, turb) ==
  [b \in Bodies |->
     IF isPressed /\ Pushable(b) THEN JetForce(pos[b], side, turb[b]) ELSE Zero]

----------------------------------------------------------------------------
(* applyWaterJet: the bubbles *)

\* the bubble pushed with id, from the draws d = <<x, y, size, opacity>>
NewBubble(side, id, d) ==
  [id      |-> id,
   x       |-> xPosition(side) * 1000 + (d[1] - 500) * xSpread,
   y       |-> (height - 50) * 1000 - d[2] * ySpread,
   size    |-> sizeBase * 1000 + d[3] * sizeSpread,
   opacity |-> opacityBase + d[4] * opacitySpread]

\* newBubbles of one call, ids from first on
NewBubbles(side, first, draws) ==
  [i \in 1..bubbleCount |-> NewBubble(side, first + i - 1, draws[i])]

\* the draws of one call: for each bubble one of the tuples of RS
Draws(RS) == [1..bubbleCount -> RS]

----------------------------------------------------------------------------
(* the bubble advance interval *)

\* faulty variant: the mapped bubble is the old one
AdvanceStale(b, ry, rx) == b

\* the map at lines 248-253 for one bubble, drawing ry and rx
Advance(b, ry, rx) ==
  [b EXCEPT !.y = b.y - riseBase - 2 * ry,
            !.x = b.x + (rx - 500) \div 2,
            !.opacity = Max(0, b.opacity - fadeStep)]

\* the filter at line 254
Alive(b) == b.y > topLimit /\ b.opacity > 0

RECURSIVE Filter(_)
Filter(s) ==
  IF s = <<>> THEN <<>>
  ELSE IF Alive(Head(s)) THEN <<Head(s)>> \o Filter(Tail(s)) ELSE Filter(Tail(s))

Ids(s) == {s[i].id : i \in 1..Len(s)}

----------------------------------------------------------------------------
(* Initial state: the component rendered once, no effect run yet *)

Init ==
  /\ phase = "rendered"
  /\ containerRef \in BOOLEAN
  /\ canvasRef \in BOOLEAN
  /\ engineRef = FALSE
  /\ renderRef = "null"
  /\ runnerRef = "null"
  /\ world = {}
  /\ pos = InitialPos
  /\ applied = NoForce
  /\ leftButtonPressed = FALSE
  /\ rightButtonPressed = FALSE
  /\ forceInterval = NoTimer
  /\ bubbleInterval = FALSE
  /\ listeners = {}
  /\ cleanups = {}
  /\ bubbles = <<>>
  /\ bubbleIdRef = 0
  /\ error = FALSE
  /\ input = [s \in Sides |-> [kind |-> "none", held |-> "none"]]
  /\ forceTimer = 0
  /\ waited = 0

----------------------------------------------------------------------------
(* The effects *)

\* faulty variant: the canvas is not checked
SceneProceedsUnchecked == containerRef

\* the guard of the scene effect, line 27: setup proceeds
SceneProceeds == containerRef /\ canvasRef

\* the jet effect, lines 188-241: what it registers, given engineRef.current
\* and the flags of this render
JetEffect(engine, l, r) ==
  IF engine THEN [registered |-> TRUE, left |-> l, right |-> r] ELSE NoTimer

\* faulty variant: the interval is not cleared
JetCleanupLeak(timer) == timer

\* the cleanup of the jet effect, line 240
JetCleanup(timer) == NoTimer

\* the cleanups held after the jet effect ran
JetCleanups(engine, held) ==
  (held \ {"jet"}) \cup (IF engine THEN {"jet"} ELSE {})

\* first commit: the four effects run in order
Mount ==
  /\ phase = "rendered"
  /\ phase' = "mounted"
  /\ engineRef' = SceneProceeds
  /\ renderRef' = IF SceneProceeds THEN "running" ELSE "null"
  /\ runnerRef' = IF SceneProceeds THEN "running" ELSE "null"
  /\ world' = IF SceneProceeds THEN Bodies ELSE {}
  /\ forceInterval' = JetEffect(engineRef', leftButtonPressed, rightButtonPressed)
  /\ forceTimer' = IF engineRef' THEN ForcePeriod ELSE forceTimer
  /\ bubbleInterval' = TRUE
  /\ listeners' = (IF SceneProceeds THEN {"resize"} ELSE {}) \cup {"keydown", "keyup"}
  /\ cleanups' = JetCleanups(engineRef', (IF SceneProceeds THEN {"scene"} ELSE {})
                                          \cup {"bubble", "keys"})
  /\ UNCHANGED <<containerRef, canvasRef, pos, applied, leftButtonPressed,
                 rightButtonPressed, bubbles, bubbleIdRef, error, input, waited>>

\* the listeners left after the cleanups in cs ran
CleanedListeners(cs) ==
  listeners \ ((IF "scene" \in cs THEN {"resize"} ELSE {})
               \cup (IF "keys" \in cs THEN {"keydown", "keyup"} ELSE {}))

\* a cleanup would use an object that was never created
CleanupThrows(cs) ==
  "scene" \in cs /\ (renderRef = "null" \/ runnerRef = "null" \/ ~engineRef)

\* every cleanup the effects returned runs
RunCleanups ==
  /\ renderRef' = IF "scene" \in cleanups /\ renderRef # "null" THEN "stopped" ELSE renderRef
  /\ runnerRef' = IF "scene" \in cleanups /\ runnerRef # "null" THEN "stopped" ELSE runnerRef
  /\ world' = IF "scene" \in cleanups THEN {} ELSE world
  /\ forceInterval' = IF "jet" \in cleanups THEN JetCleanup(forceInterval) ELSE forceInterval
  /\ bubbleInterval' = IF "bubble" \in cleanups THEN FALSE ELSE bubbleInterval
  /\ listeners' = CleanedListeners(cleanups)
  /\ error' = (error \/ CleanupThrows(cleanups))
  /\ UNCHANGED <<containerRef, canvasRef, engineRef, pos, applied, leftButtonPressed,
                 rightButtonPressed, cleanups, bubbles, bubbleIdRef, input, forceTimer,
                 waited>>

Unmount == phase = "mounted" /\ phase' = "unmounted" /\ RunCleanups

\* the cleanups are called once more
TeardownAgain == phase = "unmounted" /\ phase' = "again" /\ RunCleanups

----------------------------------------------------------------------------
(* Input *)

Pressed(side) == IF side = "left" THEN leftButtonPressed ELSE rightButtonPressed

\* history of the inputs of one side
Recorded(side, v, src) ==
  [input EXCEPT ![side] =
     IF v THEN [kind |-> "press", held |-> src]
          ELSE [kind |-> "release", held |-> IF @.held = src THEN "none" ELSE @.held]]

\* setLeftButtonPressed(v) / setRightButtonPressed(v) and, when the state
\* changed, the render after it: the jet effect is cleaned up and runs again
SetPressed(side, v) ==
  LET l == IF side = "left" THEN v ELSE leftButtonPressed
      r == IF side = "right" THEN v ELSE rightButtonPressed
      changed == v # Pressed(side)
  IN /\ leftButtonPressed' = l
     /\ rightButtonPressed' = r
     /\ forceInterval' = IF changed THEN JetEffect(engineRef, l, r) ELSE forceInterval
     /\ cleanups' = IF changed THEN JetCleanups(engineRef, cleanups) ELSE cleanups
     /\ forceTimer' = IF changed /\ engineRef THEN ForcePeriod ELSE forceTimer
     /\ waited' = IF side = "left" /\ changed THEN 0 ELSE waited
     /\ UNCHANGED <<sceneVars, pos, applied, bubbleInterval, listeners, bubbles,
                    bubbleIdRef, error>>

onMouseDown(side)  == phase = "mounted" /\ SetPressed(side, TRUE)
                      /\ input' = Recorded(side, TRUE, "mouse")
onMouseUp(side)    == phase = "mounted" /\ SetPressed(side, FALSE)
                      /\ input' = Recorded(side, FALSE, "mouse")
\* faulty variant: the button has no onMouseLeave
onMouseLeaveIgnored(side) ==
  /\ phase = "mounted"
  /\ input' = Recorded(side, FALSE, "mouse")
  /\ UNCHANGED <<sceneVars, pos, applied, leftButtonPressed, rightButtonPressed,
                 forceInterval, bubbleInterval, listeners, cleanups, bubbles, bubbleIdRef,
                 error, forceTimer, waited>>

onMouseLeave(side) == phase = "mounted" /\ SetPressed(side, FALSE)
                      /\ input' = Recorded(side, FALSE, "mouse")
onTouchStart(side) == phase = "mounted" /\ SetPressed(side, TRUE)
                      /\ input' = Recorded(side, TRUE, "touch")
onTouchEnd(side)   == phase = "mounted" /\ SetPressed(side, FALSE)
                      /\ input' = Recorded(side, FALSE, "touch")

Keys == {"ArrowLeft", "ArrowRight", "Other"}

\* faulty variant: ArrowRight drives the left jet too
handleKeyLeftOnly(key, v) ==
  IF key = "ArrowLeft" THEN SetPressed("left", v) /\ input' = Recorded("left", v, "key")
  ELSE IF key = "ArrowRight"
    THEN SetPressed("left", v) /\ input' = Recorded("right", v, "key")
    ELSE UNCHANGED vars

handleKey(key, v) ==
  IF key = "ArrowLeft" THEN SetPressed("left", v) /\ input' = Recorded("left", v, "key")
  ELSE IF key = "ArrowRight"
    THEN SetPressed("right", v) /\ input' = Recorded("right", v, "key")
    ELSE UNCHANGED vars

handleKeyDown(key) == "keydown" \in listeners /\ handleKey(key, TRUE)
handleKeyUp(key)   == "keyup" \in listeners /\ handleKey(key, FALSE)

handleResize == "resize" \in listeners /\ UNCHANGED vars

----------------------------------------------------------------------------
(* The timers and the engine *)

Min(a, b) == IF a <= b THEN a ELSE b

TurbDraws(isPressed, RT) ==
  IF isPressed THEN [Dynamic -> RT] ELSE {[b \in Dynamic |-> 500]}
BubbleDraws(isPressed, DS) ==
  IF isPressed THEN DS ELSE {[i \in 1..bubbleCount |-> <<500, 500, 500, 500>>]}

\* the callback of the force interval: applyWaterJet('left', ...) then
\* applyWaterJet('right', ...), with the flags the callback closed over.
\* timed: the callback runs when its period has elapsed.
ForceTick(timed, cap, RT, DS) ==
  /\ forceInterval.registered
  /\ timed => forceTimer = 0
  /\ LET l  == forceInterval.left
         r  == forceInterval.right
         nl == IF l THEN bubbleCount ELSE 0
         nr == IF r THEN bubbleCount ELSE 0
     IN /\ Len(bubbles) + nl + nr <= cap
        /\ bubbleIdRef + nl + nr <= MaxBubbleId
        /\ \E tl \in TurbDraws(l, RT), tr \in TurbDraws(r, RT),
              dl \in BubbleDraws(l, DS), dr \in BubbleDraws(r, DS) :
             /\ applied' = [b \in Bodies |->
                              [left  |-> JetForces("left", l, tl)[b],
                               right |-> JetForces("right", r, tr)[b]]]
             /\ bubbles' = bubbles
                             \o (IF l THEN NewBubbles("left", bubbleIdRef, dl) ELSE <<>>)
                             \o (IF r THEN NewBubbles("right", bubbleIdRef + nl, dr)
                                      ELSE <<>>)
        /\ bubbleIdRef' = bubbleIdRef + nl + nr
  /\ forceTimer' = ForcePeriod
  /\ waited' = 0
  /\ UNCHANGED <<sceneVars, pos, leftButtonPressed, rightButtonPressed, forceInterval,
                 bubbleInterval, listeners, cleanups, error, input>>

\* the callback of the bubble interval, lines 245-256
BubbleTick(RR, RD) ==
  /\ bubbleInterval
  /\ \E d \in [1..Len(bubbles) -> RR \X RD] :
       bubbles' = Filter([i \in 1..Len(bubbles) |->
                            Advance(bubbles[i], d[i][1], d[i][2])])
  /\ UNCHANGED <<sceneVars, pos, applied, leftButtonPressed, rightButtonPressed,
                 forceInterval, bubbleInterval, listeners, cleanups, bubbleIdRef, error,
                 input, forceTimer, waited>>

\* one step of the physics engine (Matter.Runner): the dynamic bodies move,
\* and the forces applied since the last step are consumed
EngineStep(P) ==
  /\ runnerRef = "running"
  /\ \E p \in [Dynamic -> P] :
       pos' = [b \in Bodies |-> IF Pushable(b) THEN p[b] ELSE pos[b]]
  /\ applied' = NoForce
  /\ UNCHANGED <<sceneVars, leftButtonPressed, rightButtonPressed, forceInterval,
                 bubbleInterval, listeners, cleanups, bubbles, bubbleIdRef, error, input,
                 forceTimer, waited>>

\* time passes, up to the moment the force interval is due
Elapse ==
  /\ phase = "mounted"
  /\ forceInterval.registered => forceTimer > 0
  /\ LET dt == IF forceInterval.registered THEN Min(Quantum, forceTimer) ELSE Quantum
     IN /\ forceTimer' = IF forceInterval.registered THEN forceTimer - dt ELSE forceTimer
        /\ waited' = IF leftButtonPressed THEN Min(waited + dt, MaxWait) ELSE waited
  /\ UNCHANGED <<sceneVars, pos, applied, leftButtonPressed, rightButtonPressed,
                 forceInterval, bubbleInterval, listeners, cleanups, bubbles, bubbleIdRef,
                 error, input>>

----------------------------------------------------------------------------
(* Inputs explored *)

\* positions the engine may move a ring segment to: the initial ones, the
\* centre of the left jet, two near it, the overlap of the zones, the edge
\* of the left zone, the right zone only, the edge of the band, above it
PointsAll == {InitialPos["segA"], InitialPos["segB"], <<150, 300>>, <<160, 300>>,
              <<161, 300>>, <<330, 300>>, <<400, 300>>, <<150, 100>>, <<178, 60>>}

\* values of Math.random(), per mille
RandMid == {500}
RandAll == {0, 500, 998}

\* draws <<x, y, size, opacity>> of one bubble: the lowest and the highest
DrawLow  == <<0, 0, 0, 0>>
DrawHigh == <<998, 998, 998, 998>>

\* draws of one burst: all low; or of both lifetimes, or all high
BurstsLow   == Draws({DrawLow})
BurstsMixed == {<<DrawLow, DrawHigh, DrawLow>>, <<DrawHigh, DrawHigh, DrawHigh>>}

----------------------------------------------------------------------------
(* Specifications *)

Buttons ==
  \/ \E side \in Sides : onMouseDown(side)
  \/ \E side \in Sides : onMouseUp(side)
  \/ \E side \in Sides : onMouseLeave(side)
  \/ \E side \in Sides : onTouchStart(side)
  \/ \E side \in Sides : onTouchEnd(side)

Keyboard ==
  \/ \E key \in Keys : handleKeyDown(key)
  \/ \E key \in Keys : handleKeyUp(key)

\* the component: lifecycle, every input, both timers; the bodies rest
Next ==
  \/ Mount
  \/ Unmount
  \/ TeardownAgain
  \/ Buttons
  \/ Keyboard
  \/ handleResize
  \/ ForceTick(FALSE, MaxBubbles, RandMid, BurstsLow)
  \/ BubbleTick(RandMid, RandMid)

Spec == Init /\ [][Next]_vars

\* the jet force controller with the engine moving the bodies, over every
\* position and turbulence; the bubble list only grows here
NextForce ==
  \/ Mount
  \/ Unmount
  \/ Keyboard
  \/ ForceTick(FALSE, MaxBubbles, RandAll, BurstsLow)
  \/ EngineStep(PointsAll)

SpecForce == Init /\ [][NextForce]_vars

\* the force interval with time
NextTimed ==
  \/ Mount
  \/ Unmount
  \/ Keyboard
  \/ ForceTick(TRUE, MaxBubbles, RandMid, BurstsLow)
  \/ Elapse

SpecTimed == Init /\ [][NextTimed]_vars

\* the bubble list while the component is mounted: bursts of bubbles of both
\* lifetimes; the advance interval keeps firing (setInterval, line 245)
NextBubbles ==
  \/ Mount
  \/ Unmount
  \/ Keyboard
  \/ ForceTick(FALSE, MaxLive, RandMid, BurstsMixed)
  \/ BubbleTick(RandMid, RandMid)

SpecBubbles == Init /\ [][NextBubbles]_vars /\ WF_vars(BubbleTick(RandMid, RandMid))


----------------------------------------------------------------------------
(* Vocabulary of the properties *)

Other(s) == IF s = "left" THEN "right" ELSE "left"

\* the jet zone as the specification states it: centres 150 and 450,
\* radius 180, band of 200 around y = 300
CentreX(s)    == IF s = "left" THEN 150 ELSE 450
Reach(p, s)   == Abs(p[1] - CentreX(s))
InBand(p)     == Abs(p[2] - 300) < 200
Within(p, s)  == Reach(p, s) < 180 /\ InBand(p)

\* this step is a force tick on which at least one jet was active (every
\* such tick, and no other step, draws bubble ids)
ForceStep == bubbleIdRef' # bubbleIdRef

\* the force interval runs with only jet s active
HeldOnly(s) == forceInterval.registered /\ forceInterval[s] /\ ~forceInterval[Other(s)]

\* squared magnitude of a force (components below 10^7) as three limbs in
\* base 10^4, the highest first
Limbs(n) ==
  LET a   == n \div 10000
      b   == n % 10000
      mid == 2 * a * b + (b * b) \div 10000
  IN << a * a + mid \div 10000, mid % 10000, (b * b) % 10000 >>

MagSq(f) ==
  LET u  == Limbs(Abs(f[1]))
      v  == Limbs(Abs(f[2]))
      l0 == u[3] + v[3]
      l1 == u[2] + v[2] + l0 \div 10000
  IN << u[1] + v[1] + l1 \div 10000, l1 % 10000, l0 % 10000 >>

\* |f| < |g|
Weaker(f, g) ==
  LET m == MagSq(f)
      n == MagSq(g)
  IN \/ m[1] < n[1]
     \/ m[1] = n[1] /\ m[2] < n[2]
     \/ m[1] = n[1] /\ m[2] = n[2] /\ m[3] < n[3]

----------------------------------------------------------------------------
(* C1 - force zone.  A non-static body whose horizontal distance to a jet  *)
(* centre is not below 180, or whose vertical distance to y = 300 is not   *)
(* below 200, has no force from that jet; and on a tick with only the left *)
(* jet active a body at (150,300) receives an upward force and a body at   *)
(* (400,300) receives none.                                                *)
ForceZone ==
  /\ [](\A b \in Dynamic, s \in Sides :
          ~Within(pos[b], s) => applied[b][s] = Zero)
  /\ [][(ForceStep /\ HeldOnly("left")) =>
          \A b \in Dynamic :
            /\ pos[b] = <<150, 300>> => applied'[b]["left"][2] < 0
            /\ pos[b] = <<400, 300>> => applied'[b] = [s \in Sides |-> Zero]]_vars

\* after a tick of the left jet alone: one body at the centre, pushed up,
\* the other at (400,300), not pushed
ForceZoneSeen ==
  /\ HeldOnly("left")
  /\ \E b, c \in Dynamic :
       /\ pos[b] = <<150, 300>> /\ applied[b]["left"][2] < 0
       /\ pos[c] = <<400, 300>> /\ applied[c] = [s \in Sides |-> Zero]
  /\ bubbleIdRef > 0

(* C2 as stated - with one jet held alone, every body inside the opposite  *)
(* jet's zone receives no force on the tick.                               *)
OppositeZoneUntouched ==
  [][\A s \in Sides : (ForceStep /\ HeldOnly(s)) =>
       \A b \in Dynamic :
         Within(pos[b], Other(s)) => applied'[b] = [t \in Sides |-> Zero]]_vars

(* C2 amended - with one jet held alone, on every tick the other jet       *)
(* applies no force at all, and the held jet applies force to exactly the  *)
(* non-static bodies inside its own zone: a body inside the opposite zone  *)
(* is untouched when it is outside the held jet's zone, and pushed when it *)
(* is in the overlap of the two zones (270 < x < 330).                     *)
OnlyHeldZonePushed ==
  [][\A s \in Sides : (ForceStep /\ HeldOnly(s)) =>
       \A b \in Dynamic :
         /\ applied'[b][Other(s)] = Zero
         /\ Within(pos[b], s) <=> applied'[b][s] # Zero]_vars

\* two consecutive ticks of the left jet alone (six left bubbles): the body
\* in the overlap is pushed, the body in the right zone only is not
OnlyHeldZoneSeen ==
  /\ HeldOnly("left")
  /\ bubbleIdRef = 2 * bubbleCount /\ Len(bubbles) = 2 * bubbleCount
  /\ \A i \in 1..Len(bubbles) : bubbles[i].x < 300000
  /\ \E b, c \in Dynamic :
       /\ Within(pos[b], "left") /\ Within(pos[b], "right")
       /\ applied[b]["left"] # Zero
       /\ ~Within(pos[c], "left") /\ Within(pos[c], "right")
       /\ applied[c] = [s \in Sides |-> Zero]

(* C8 as stated - of two bodies pushed by the same jet on the same tick,   *)
(* the one farther from the jet centre receives the force of strictly      *)
(* smaller magnitude, whatever the turbulence drawn.                       *)
FartherIsWeaker ==
  \A s \in Sides : \A b, c \in Dynamic :
    (applied[b][s] # Zero /\ applied[c][s] # Zero /\ Reach(pos[b], s) < Reach(pos[c], s))
      => Weaker(applied[c][s], applied[b][s])

(* C8 amended - the upward component of a jet's force is 0.18 times a      *)
(* strength that falls linearly from 1 at the jet centre to 0 at distance  *)
(* 180, so of two bodies pushed on the same tick the farther one has the   *)
(* strictly smaller upward component, whatever the turbulence; the whole   *)
(* magnitude is strictly smaller for the farther body when both bodies     *)
(* drew the same turbulence.                                               *)
FartherIsWeakerUpward ==
  \A s \in Sides : \A b, c \in Dynamic :
    /\ applied[b][s] # Zero => applied[b][s][2] = -18000 * (180 - Reach(pos[b], s))
    /\ (applied[b][s] # Zero /\ applied[c][s] # Zero
          /\ Reach(pos[b], s) < Reach(pos[c], s))
         => /\ -applied[c][s][2] < -applied[b][s][2]
            /\ (applied[b][s][1] * (180 - Reach(pos[c], s))
                  = applied[c][s][1] * (180 - Reach(pos[b], s)))
                 => Weaker(applied[c][s], applied[b][s])

\* two bodies at distances 10 and 11 from the left jet, pushed on the same
\* tick with the same turbulence
FartherIsWeakerSeen ==
  \E b, c \in Dynamic :
    /\ pos[b] = <<160, 300>> /\ pos[c] = <<161, 300>>
    /\ applied[b]["left"] # Zero /\ applied[c]["left"] # Zero
    /\ applied[b]["left"][1] * 169 = applied[c]["left"][1] * 170
    /\ Weaker(applied[c]["left"], applied[b]["left"])

(* C9 - every force the left jet applies points right and up, every force  *)
(* the right jet applies points left and up, and the lateral component is  *)
(* the push of 0.02 changed by at most 0.0075, times the strength.         *)
LateralPush ==
  \A b \in Bodies, s \in Sides :
    applied[b][s] # Zero =>
      LET k   == 180 - Reach(pos[b], s)
          dir == IF s = "left" THEN 1 ELSE -1
      IN /\ dir * applied[b][s][1] > 0
         /\ applied[b][s][2] < 0
         /\ Abs(applied[b][s][1] - dir * 2000 * k) <= 750 * k

\* one body pushed by both jets on the same tick, each with the turbulence
\* that opposes its push the most
LateralPushSeen ==
  \E b \in Dynamic :
    LET kl == 180 - Reach(pos[b], "left")
        kr == 180 - Reach(pos[b], "right")
    IN /\ Within(pos[b], "left") /\ Within(pos[b], "right")
       /\ applied[b]["left"][1] = (2000 - 750) * kl
       /\ applied[b]["right"][1] = (-2000 + 747) * kr

----------------------------------------------------------------------------
(* C3 - every spawned bubble is eventually removed.  While the advance     *)
(* interval is registered no bubble id stays in the live list for ever,    *)
(* also while a jet stays held and spawns new bubbles; an advance tick     *)
(* lowers the opacity of a bubble by 0.02 and its y by at least 2, and no  *)
(* bubble with opacity 0 or y at most -20 is in the list.                  *)
BubblesExpire ==
  /\ \A id \in 0..(MaxBubbleId - 1) :
       []<>(id \notin Ids(bubbles) \/ ~bubbleInterval)
  /\ [](\A i \in 1..Len(bubbles) : bubbles[i].opacity > 0 /\ bubbles[i].y > -20000)
  /\ [][bubbleIdRef' = bubbleIdRef =>
          \A i \in 1..Len(bubbles), j \in 1..Len(bubbles') :
            bubbles'[j].id = bubbles[i].id =>
              \/ bubbles'[j] = bubbles[i]
              \/ /\ bubbles'[j].opacity = bubbles[i].opacity - 200
                 /\ bubbles'[j].y <= bubbles[i].y - 2000]_vars

\* the left jet is held; of the first burst only the long-lived bubble is
\* left, and a second burst has been spawned beside it
BubblesExpireSeen ==
  /\ bubbleInterval /\ leftButtonPressed
  /\ bubbleIdRef = 2 * bubbleCount
  /\ Ids(bubbles) = {1, 3, 4, 5}

----------------------------------------------------------------------------
(* C4 - teardown.  Once the cleanups have run, no timer and no listener is *)
(* registered, the renderer and the runner are stopped, and no force tick, *)
(* bubble tick, keyboard, button or resize handler and no engine step can  *)
(* run; running the cleanups once more changes none of this; no cleanup    *)
(* raises an error, whether or not the scene setup had proceeded.          *)
TornDown == phase \in {"unmounted", "again"}

TeardownReleases ==
  /\ ~error
  /\ TornDown =>
       /\ ~forceInterval.registered
       /\ ~bubbleInterval
       /\ listeners = {}
       /\ renderRef # "running" /\ runnerRef # "running"
       /\ world = {}
       /\ ~ENABLED ForceTick(FALSE, MaxBubbles, RandMid, BurstsLow)
       /\ ~ENABLED BubbleTick(RandMid, RandMid)
       /\ ~ENABLED Keyboard
       /\ ~ENABLED Buttons
       /\ ~ENABLED handleResize
       /\ ~ENABLED EngineStep(PointsAll)

\* torn down twice, with the left jet still held and bubbles in the list
TeardownSeen ==
  /\ phase = "again"
  /\ "scene" \in cleanups
  /\ leftButtonPressed
  /\ bubbles # <<>>

----------------------------------------------------------------------------
(* C5 - a jet does not stay on after its release.  When the latest input   *)
(* of a side is a release (mouse-up, mouse-leave, touch-end, key-up) its   *)
(* flag is false and the registered force callback holds false for it; and *)
(* no step taken while the flag is false applies that jet's force or adds  *)
(* a bubble of that jet.                                                   *)
BubbleSide(b) == IF b.x < 300000 THEN "left" ELSE "right"

----------------------------------------------------------------------------
(* C6 as stated - without the container or the canvas, setup leaves        *)
(* nothing behind: no engine, renderer, runner or body, no timer and no    *)
(* listener registered, no force applied.                                  *)
NoSurface == ~(containerRef /\ canvasRef)

SetupLeavesNothing ==
  NoSurface =>
    /\ ~engineRef /\ renderRef = "null" /\ runnerRef = "null" /\ world = {}
    /\ ~forceInterval.registered
    /\ ~bubbleInterval
    /\ listeners = {}
    /\ applied = NoForce

(* C6 amended - without the container or the canvas no engine, renderer,   *)
(* runner or body is created, neither the force interval nor the resize    *)
(* listener is ever registered, and no force is applied and no bubble      *)
(* spawned; the bubble interval and the two keyboard listeners are         *)
(* registered all the same while the component is mounted, and removed by  *)
(* its teardown.                                                           *)
SetupLeavesNoScene ==
  NoSurface =>
    /\ ~engineRef /\ renderRef = "null" /\ runnerRef = "null" /\ world = {}
    /\ ~forceInterval.registered
    /\ "resize" \notin listeners
    /\ applied = NoForce
    /\ bubbles = <<>>
    /\ phase = "mounted" => bubbleInterval /\ listeners = {"keydown", "keyup"}
    /\ phase # "mounted" => ~bubbleInterval /\ listeners = {}

\* mounted without a canvas, both jets pressed since
NoSceneSeen ==
  /\ containerRef /\ ~canvasRef
  /\ phase = "mounted"
  /\ leftButtonPressed /\ rightButtonPressed

----------------------------------------------------------------------------
(* C7 - the force tick has a fixed period of 50 ms: while the component is *)
(* mounted and the left jet's flag stays true, the time since the flag     *)
(* became true or since the last force tick never exceeds 50 ms, whatever  *)
(* happens to the right jet.                                               *)
ForceEveryPeriod ==
  (phase = "mounted" /\ forceInterval.registered /\ leftButtonPressed)
    => waited <= ForcePeriod

----------------------------------------------------------------------------
(* C10 - each side's flag is true exactly when the latest input event of   *)
(* that side was a press, and false when it was a release or when there    *)
(* was none; an event of one side changes nothing of the other side.       *)
FlagFollowsLatestInput ==
  /\ [](\A s \in Sides : Pressed(s) <=> input[s].kind = "press")
  /\ [][\A s \in Sides : input'[s] = input[s] => Pressed(s)' = Pressed(s)]_vars

\* the flag of a side is false after a release by one source while the
\* press of another source of that side has not been released
FlagFollowsSeen ==
  \E s \in Sides :
    /\ ~Pressed(s)
    /\ input[s].kind = "release"
    /\ input[s].held # "none"
    /\ Pressed(Other(s))
====
